---- MODULE Spec2Model ----
(***************************************************************************)
(* Model of the HTTP request executor of src/src/index.js (HttpBuilder,    *)
(* validConfiguration, call) and of the request object of                  *)
(* src/src/client/index.js (HttpRequest).                                  *)
(*                                                                         *)
(* One builder is constructed, configured through its setters and sent.   *)
(* Every JavaScript run-to-completion block is one action: send() up to    *)
(* its first await, the continuation after the transport answers, the     *)
(* continuation after refreshTokenStrategy answers, the continuation      *)
(* after the terminal strategy answers.  Side effects and strategies are   *)
(* caller code: a call of one either returns at once or suspends and       *)
(* completes in a later block.                                             *)
(***************************************************************************)
EXTENDS Integers, Sequences, FiniteSets, TLC

\* ------------------------------------------------------------------ bounds

\* Number of setter calls made on the builder before send().
MaxBuilderCalls == 4

\* Cap on the transport dispatches of one send(): only a NaN retry budget
\* (for which `retry >= maxRetry` is never true) can reach it.  An execution
\* that has dispatched this often is followed no further once it asks for a
\* refresh.
MaxDispatch == 3

\* Number of send() calls made on the builder.
MaxSends == 2

\* ------------------------------------------------------- JavaScript values

\* null and undefined, and the values a caller passes that are no object,
\* no number and no function.
Null == "null"
Undefined == "undefined"
AString == "a string"

\* A value that is a function, and one that is not.
\* "default" is the function the constructor installs in a slot.
Fn == "fn"
DefaultFn == "default"
NotFn == "notfn"

\* lodash isFunction
_isFunction(v) == v \in {Fn, DefaultFn}

\* A JavaScript number, or AString where a number is expected.  Numbers are
\* kept in halves (half = 2 * value) so that 1.5 is a value; NaN is a number.
Num(h) == [type |-> "number", nan |-> FALSE, half |-> h]
NaN == [type |-> "number", nan |-> TRUE, half |-> 0]
NotANumber == [type |-> "string", nan |-> FALSE, half |-> 0]

\* An optional integer (a status that may be undefined).
Undef == [def |-> FALSE, n |-> 0]
Int3(n) == [def |-> TRUE, n |-> n]

\* JavaScript truthiness of an optional integer.
Truthy(v) == v.def /\ v.n # 0

\* ------------------------------------------------------------- responses

\* What the transport hands back: nothing at all (undefined), or an object
\* with an optional status and an optional nested response (the error object
\* the axios interceptor of client/index.js:3 passes through).
AbsentResponse ==
    [absent |-> TRUE, status |-> Undef, hasResponse |-> FALSE, nested |-> Undef,
     data |-> Undefined]
Res(status, hasResponse, nested) ==
    [absent |-> FALSE, status |-> status, hasResponse |-> hasResponse,
     nested |-> nested, data |-> IF status.def THEN "D" ELSE Undefined]

\* HTTP status codes are three digits; these cover 2xx, 204, 401 and the rest.
StatusCodes == {200, 204, 401, 500}
DirectStatuses == {Undef} \cup {Int3(n) : n \in StatusCodes}
NestedStatuses == {Int3(n) : n \in {204, 401, 500}}
Responses ==
    {AbsentResponse}
        \cup {Res(s, FALSE, Undef) : s \in DirectStatuses}
        \cup {Res(s, TRUE, n) : s \in DirectStatuses, n \in NestedStatuses}

\* `res.status || (res.response && res.response.status)`
StatusOrNested(res) ==
    IF Truthy(res.status) THEN res.status
    ELSE IF res.hasResponse THEN res.nested
    ELSE Undef

\* RegExp.test on the decimal text of a value: the pattern may match at any
\* position, and the text "undefined" has no digit to match.
Shifts == {1, 10, 100, 1000}
Test401(v) == v.def /\ \E s \in Shifts : (v.n \div s) % 1000 = 401
Test204(v) == v.def /\ \E s \in Shifts : (v.n \div s) % 1000 = 204
Test2xx(v) == v.def /\ \E s \in Shifts : ((v.n \div s) % 1000) \div 100 = 2

unauthorizedNestedFirst(res) ==
    ~res.absent /\ Test401(IF res.hasResponse THEN res.nested ELSE res.status)

unauthorized(res) ==
    ~res.absent /\ Test401(StatusOrNested(res))

isAFailedHttpResponse(res) ==
    res.absent \/ ~Test2xx(StatusOrNested(res))

noContent(res) ==
    Test204(res.status)

\* ------------------------------------------------------------- validation

HttpMethods == {"Get", "Post", "Put", "Delete"}

methodInvalid(method) == method = Null \/ method \notin HttpMethods

strategiesInvalid(strategies) ==
    ~(\A i \in 1..Len(strategies) : _isFunction(strategies[i]))

\* typeof of the values a headers or queryParams field can hold
\* (typeof null is 'object').
TypeOf(v) == IF v = AString THEN "string" ELSE "object"

\* `!url`
FalsyOnlyNull(v) == v = Null

Falsy(v) == v \in {Null, Undefined, ""}

Valid == "valid"

\* The first failing check of validConfiguration, as the message it warns
\* with; Valid when every check passes.  lists are the arrays the
\* configuration's side-effect fields point to.
ValidationOutcome(c, lists) ==
    IF methodInvalid(c.method) THEN "Http method not defined or is invalid"
    ELSE IF Falsy(c.url) THEN "No url configured"
    ELSE IF TypeOf(c.headers) # "object" THEN "Headers must be an object"
    ELSE IF TypeOf(c.queryParams) # "object" THEN "Parameters must be an object"
    ELSE IF c.maxRetry.type # "number" THEN "Max retries must be a number"
    ELSE IF strategiesInvalid(
                <<c.retryFallbackStrategy, c.unauthorizedStrategy, c.failedStrategy,
                  c.noContentStrategy, c.successStrategy>>
                    \o lists[c.failedSideEffects] \o lists[c.successSideEffects]
                    \o <<c.refreshTokenStrategy>>)
         THEN "Strategies must be functions"
    ELSE Valid

validConfiguration(c, lists) == ValidationOutcome(c, lists) = Valid

\* ------------------------------------------------------------------ state

VARIABLES
    builder,        \* the fields of the HttpBuilder (this.*), arrays by name
    arrays,         \* contents of the four side-effect arrays of the builder
    heap,           \* contents of the header objects, by reference
    calls,          \* setter calls made so far
    pc,             \* where send() stands
    configuration,  \* the object send() assembled
    retry,          \* the retry argument of the running call()
    request,        \* the HttpRequest of the running call()
    nextId,         \* identity of the next HttpRequest constructed
    response,       \* the response of the last dispatch
    log,            \* calls made by the engine and completions, in order
    pending,        \* side effects that were started and have not completed
    passed,         \* what the terminal branch handed to its handlers
    strategy,       \* the terminal strategy send() is waiting for
    result,         \* what send() resolved with
    warnings,       \* console.warn output
    sends,          \* send() calls made so far
    atSend          \* the arrays and header objects as they were at send()

vars ==
    <<builder, arrays, heap, calls, pc, configuration, retry, request, nextId,
      response, log, pending, passed, strategy, result, warnings, sends, atSend>>

engine ==
    <<pc, configuration, retry, request, nextId, response, log, pending,
      passed, strategy, result, warnings, sends, atSend>>

\* Header objects: a map from header name to value, Absent when not set.
Absent == "<absent>"
EmptyHeaders == [Accept |-> Absent, Authorization |-> Absent]

\* References: the object the constructor creates, an object of the
\* caller, and the object `headers || {}` creates in HttpRequest.
OwnHeaders == "h0"
CallerHeaders == "h1"
FreshHeaders == "hf"

SideEffectLists ==
    {"retryFallbackSideEffects", "unauthorizedSideEffects", "failedSideEffects",
     "successSideEffects"}

TerminalStrategies ==
    {"retryFallbackStrategy", "unauthorizedStrategy", "failedStrategy",
     "noContentStrategy", "successStrategy"}

NoRequest ==
    [id |-> 0, Url |-> Null, Data |-> Null, Headers |-> Null, Params |-> Null,
     ResponseType |-> Null]

Unresolved == "unresolved"

\* new HttpBuilder()
Constructed ==
    [method |-> Null, url |-> Null, bearer |-> Null, headers |-> OwnHeaders,
     queryParams |-> Null, responseType |-> Null, body |-> Null,
     maxRetry |-> Num(4),
     retryFallbackStrategy |-> DefaultFn, unauthorizedStrategy |-> DefaultFn,
     failedStrategy |-> DefaultFn, noContentStrategy |-> DefaultFn,
     successStrategy |-> DefaultFn,
     retryFallbackSideEffects |-> "retryFallbackSideEffects",
     unauthorizedSideEffects |-> "unauthorizedSideEffects",
     failedSideEffects |-> "failedSideEffects",
     successSideEffects |-> "successSideEffects",
     refreshTokenStrategy |-> DefaultFn]

\* The header objects when the builder is constructed: its own `{}`, and
\* the object a caller will hand to withHeaders.
HeadersAtConstruction ==
    [r \in {OwnHeaders, CallerHeaders, FreshHeaders} |->
        IF r = CallerHeaders THEN [EmptyHeaders EXCEPT !.Accept = "json"]
        ELSE EmptyHeaders]

Init ==
    /\ builder = Constructed
    /\ arrays = [l \in SideEffectLists |-> <<>>]
    /\ heap = HeadersAtConstruction
    /\ calls = 0
    /\ pc = "idle"
    /\ configuration = Constructed
    /\ retry = 0
    /\ request = NoRequest
    /\ nextId = 1
    /\ response = AbsentResponse
    /\ log = <<>>
    /\ pending = {}
    /\ passed = "nothing"
    /\ strategy = "none"
    /\ result = Unresolved
    /\ warnings = <<>>
    /\ sends = 0
    /\ atSend = [arrays |-> arrays, heap |-> heap]

\* ---------------------------------------------------------------- builder

\* What callers pass to the setters.
Urls == {"", "/x"}
Tokens == {"t1"}
BearerArgs == Tokens \cup {Null}
HeaderArgs == {CallerHeaders, Null, AString}
ParamArgs == {"q1", AString}
ResponseTypes == {"json"}
Bodies == {"B"}
MaxRetryArgs == {NotANumber, NaN, Num(-2), Num(0), Num(2), Num(3)}
FunctionArgs == {Fn, NotFn}

\* A setter assigns one field.
Set(field, value) ==
    /\ pc = "idle"
    /\ calls < MaxBuilderCalls
    /\ builder' = [builder EXCEPT ![field] = value]
    /\ calls' = calls + 1
    /\ UNCHANGED <<arrays, heap, engine>>

\* A side-effect setter pushes onto the array of the field.
Push(field, value) ==
    /\ pc = "idle"
    /\ calls < MaxBuilderCalls
    /\ arrays' = [arrays EXCEPT ![builder[field]] = Append(@, value)]
    /\ calls' = calls + 1
    /\ UNCHANGED <<builder, heap, engine>>

asGet == Set("method", "Get")
asPost == Set("method", "Post")
asPut == Set("method", "Put")
asDelete == Set("method", "Delete")
withUrl == \E url \in Urls : Set("url", url)
withAuthorization == \E bearer \in BearerArgs : Set("bearer", bearer)
withHeaders == \E headers \in HeaderArgs : Set("headers", headers)
withParams == \E params \in ParamArgs : Set("queryParams", params)
withResponseType == \E responseType \in ResponseTypes : Set("responseType", responseType)
withBody == \E body \in Bodies : Set("body", body)
withMaxRetries == \E retries \in MaxRetryArgs : Set("maxRetry", retries)
withRetryFallbackStrategy == \E f \in FunctionArgs : Set("retryFallbackStrategy", f)
withUnauthorizedStrategy == \E f \in FunctionArgs : Set("unauthorizedStrategy", f)
withFailedStrategy == \E f \in FunctionArgs : Set("failedStrategy", f)
withNoContentStrategy == \E f \in FunctionArgs : Set("noContentStrategy", f)
withSuccessStrategy == \E f \in FunctionArgs : Set("successStrategy", f)
withRetryFallbackSideEffects == \E f \in FunctionArgs : Push("retryFallbackSideEffects", f)
withUnauthorizedSideEffects == \E f \in FunctionArgs : Push("unauthorizedSideEffects", f)
withFailedSideEffect == \E f \in FunctionArgs : Push("failedSideEffects", f)
withSuccessSideEffect == \E f \in FunctionArgs : Push("successSideEffects", f)
withRefreshTokenStrategy == \E f \in FunctionArgs : Set("refreshTokenStrategy", f)

\* ----------------------------------------------------------------- engine

Invoked(name, i) == [ev |-> "invoke", name |-> name, idx |-> i]
Completed(name, i) == [ev |-> "complete", name |-> name, idx |-> i]
Dispatched(id) == [ev |-> "dispatch", name |-> "HttpClient", idx |-> id]
Refreshed(b) ==
    [ev |-> "refreshed", name |-> "refreshTokenStrategy", idx |-> IF b THEN 1 ELSE 0]
Thrown(id) == [ev |-> "throw", name |-> "HttpClient", idx |-> id]

Count(lg, ev, name) ==
    Cardinality({i \in 1..Len(lg) : lg[i].ev = ev /\ lg[i].name = name})

Dispatches(lg) == Count(lg, "dispatch", "HttpClient")

Min(S) == CHOOSE x \in S : \A y \in S : x <= y

\* `retry >= configuration.maxRetry`: a comparison with NaN is false.
RetryExhaustedNever(r, maxRetry) == FALSE

RetryExhaustedOffByOne(r, maxRetry) == ~maxRetry.nan /\ 2 * r > maxRetry.half

RetryExhausted(r, maxRetry) == ~maxRetry.nan /\ 2 * r >= maxRetry.half

\* `retry + 1`, the retry argument of the recursive call
NextRetrySame(r) == r

NextRetrySkipsOne(r) == r + 2

NextRetry(r) == r + 1

\* array.forEach(f => f(arg)) over the first n members: each member is
\* called in turn; a member in susp suspends (returns a pending promise that
\* forEach drops), the others have completed when their call returns.
RECURSIVE forEach(_, _, _)
forEach(name, n, susp) ==
    IF n = 0 THEN <<>>
    ELSE forEach(name, n - 1, susp)
            \o (IF n \in susp THEN <<Invoked(name, n)>>
                ELSE <<Invoked(name, n), Completed(name, n)>>)

\* The calls of a terminal branch, in order: the forEach over the first ran
\* members of the side-effect array, then the strategy.
BranchCallsOfFailed(list, ran, susp, slot) ==
    forEach("failedSideEffects", ran, susp) \o <<Invoked(slot, 0)>>

BranchCallsStrategyFirst(list, ran, susp, slot) ==
    <<Invoked(slot, 0)>> \o forEach(list, ran, susp)

BranchCallsNoContentSkipped(list, ran, susp, slot) ==
    forEach(list, ran, susp)
        \o (IF slot = "noContentStrategy" THEN <<>> ELSE <<Invoked(slot, 0)>>)

BranchCalls(list, ran, susp, slot) ==
    forEach(list, ran, susp) \o <<Invoked(slot, 0)>>

\* A terminal branch of call(): the forEach over the side-effect array, then
\* the call of the strategy, whose promise call() awaits.  Calling a member
\* or a strategy that is no function throws a TypeError out of call().
Terminate(cfg, list, slot, lg) ==
    LET members == arrays[cfg[list]]
        bad == {i \in 1..Len(members) : ~_isFunction(members[i])}
        ran == IF bad = {} THEN Len(members) ELSE Min(bad) - 1
    IN  \E susp \in SUBSET (1..ran) :
            /\ pending' = pending \cup {<<list, i>> : i \in susp}
            /\ IF bad # {} \/ ~_isFunction(cfg[slot])
               THEN /\ log' = lg \o forEach(list, ran, susp)
                    /\ pc' = "threw"
                    /\ strategy' = strategy
               ELSE /\ log' = lg \o BranchCalls(list, ran, susp, slot)
                    /\ pc' = "awaitStrategy"
                    /\ strategy' = slot

\* new HttpRequest({...}): Headers is the object given, or a new one.
HttpRequestWithoutParams(id, url, body, headers, queryParams, responseType) ==
    [id |-> id, Url |-> url, Data |-> body,
     Headers |-> IF headers = Null THEN FreshHeaders ELSE headers,
     Params |-> Undefined, ResponseType |-> responseType]

HttpRequest(id, url, body, headers, queryParams, responseType) ==
    [id |-> id, Url |-> url, Data |-> body,
     Headers |-> IF headers = Null THEN FreshHeaders ELSE headers,
     Params |-> queryParams, ResponseType |-> responseType]

\* request.addHeader(key, value), on the heap h
addHeaderDropped(h, req, key, value) == h

addHeader(h, req, key, value) == [h EXCEPT ![req.Headers][key] = value]

\* call(configuration, retry) up to its first await.
call(cfg, r, lg) ==
    LET req == HttpRequest(nextId, cfg.url, cfg.body, cfg.headers,
                           cfg.queryParams, cfg.responseType)
        h0 == IF cfg.headers = Null THEN [heap EXCEPT ![FreshHeaders] = EmptyHeaders]
              ELSE heap
    IN  /\ request' = req
        /\ nextId' = nextId + 1
        /\ retry' = r
        /\ IF RetryExhausted(r, cfg.maxRetry)
           THEN /\ heap' = h0
                /\ passed' = "request"
                /\ Terminate(cfg, "retryFallbackSideEffects", "retryFallbackStrategy", lg)
           ELSE /\ Dispatches(lg) < MaxDispatch
                /\ heap' = IF cfg.bearer # Null
                           THEN addHeader(h0, req, "Authorization", "Bearer " \o cfg.bearer)
                           ELSE h0
                /\ log' = Append(lg, Dispatched(req.id))
                /\ pc' = "awaitTransport"
                /\ UNCHANGED <<pending, passed, strategy>>

\* send(): assemble the configuration, validate it, start call().
send ==
    /\ pc = "idle"
    /\ sends < MaxSends
    /\ sends' = sends + 1
    /\ atSend' = [arrays |-> arrays, heap |-> heap]
    /\ LET cfg == builder
       IN  /\ configuration' = cfg
           /\ IF validConfiguration(cfg, arrays)
              THEN /\ call(cfg, 0, <<>>)
                   /\ UNCHANGED <<result, warnings, response>>
              ELSE /\ warnings' = Append(warnings, ValidationOutcome(cfg, arrays))
                   /\ pc' = "done"
                   /\ result' = Undefined
                   /\ UNCHANGED <<heap, retry, request, nextId, response, log,
                                  pending, passed, strategy>>
    /\ UNCHANGED <<builder, arrays, calls>>

\* The transport answers: the continuation of call() after line 86.
TransportResponds ==
    /\ pc = "awaitTransport"
    /\ \E res \in Responses :
        /\ response' = res
        /\ IF unauthorized(res)
           THEN /\ log' = Append(log, Invoked("refreshTokenStrategy", 0))
                /\ pc' = "awaitRefresh"
                /\ UNCHANGED <<pending, passed, strategy>>
           ELSE IF isAFailedHttpResponse(res)
           THEN /\ passed' = "response"
                /\ Terminate(configuration, "failedSideEffects", "failedStrategy", log)
           ELSE /\ passed' = "response"
                /\ Terminate(configuration, "successSideEffects",
                             IF noContent(res) THEN "noContentStrategy"
                             ELSE "successStrategy", log)
    /\ UNCHANGED <<builder, arrays, heap, calls, configuration, retry, request,
                   nextId, result, warnings, sends, atSend>>

\* The transport throws, or its promise rejects: nothing in call() or send()
\* catches, so the exception leaves send().
TransportThrowsAndIsCaught ==
    /\ pc = "awaitTransport"
    /\ response' = AbsentResponse
    /\ passed' = "response"
    /\ Terminate(configuration, "failedSideEffects", "failedStrategy",
                 Append(log, Thrown(request.id)))
    /\ UNCHANGED <<builder, arrays, heap, calls, configuration, retry, request,
                   nextId, result, warnings, sends, atSend>>

TransportThrows ==
    /\ pc = "awaitTransport"
    /\ log' = Append(log, Thrown(request.id))
    /\ pc' = "threw"
    /\ UNCHANGED <<builder, arrays, heap, calls, configuration, retry, request,
                   nextId, response, pending, passed, strategy, result, warnings,
                   sends, atSend>>

\* What a refreshTokenStrategy can answer: the constructor's answers false.
RefreshAnswers(f) == IF f = DefaultFn THEN {FALSE} ELSE BOOLEAN

\* refreshTokenStrategy answers: the continuation of call() after line 89.
RefreshReturns ==
    /\ pc = "awaitRefresh"
    /\ Dispatches(log) < MaxDispatch
    /\ \E b \in RefreshAnswers(configuration.refreshTokenStrategy) :
        LET lg == Append(log, Refreshed(b))
        IN  IF b
            THEN /\ call(configuration, NextRetry(retry), lg)
                 /\ UNCHANGED response
            ELSE /\ passed' = "response"
                 /\ Terminate(configuration, "unauthorizedSideEffects",
                              "unauthorizedStrategy", lg)
                 /\ UNCHANGED <<heap, retry, request, nextId, response>>
    /\ UNCHANGED <<builder, arrays, calls, configuration, result, warnings,
                   sends, atSend>>

\* What a strategy returns: the constructor's functions are known, a
\* caller's function returns a value of its own.
StrategyValue(cfg, slot, res) ==
    IF cfg[slot] # DefaultFn THEN "value of " \o slot
    ELSE IF slot = "successStrategy" THEN res.data
    ELSE IF slot = "noContentStrategy" THEN "true"
    ELSE IF slot = "failedStrategy" THEN "false"
    ELSE Undefined

\* `return await ...`: what the strategy returned is what call(), each
\* call() around it and send() return.
ReturnedNothing(v) == Undefined

Returned(v) == v

\* The terminal strategy answers: call() returns and send() resolves.
StrategyReturns ==
    /\ pc = "awaitStrategy"
    /\ log' = Append(log, Completed(strategy, 0))
    /\ result' = Returned(StrategyValue(configuration, strategy, response))
    /\ pc' = "done"
    /\ UNCHANGED <<builder, arrays, heap, calls, configuration, retry, request,
                   nextId, response, pending, passed, strategy, warnings,
                   sends, atSend>>

\* A suspended side effect completes.
SideEffectCompletes ==
    \E p \in pending :
        /\ pending' = pending \ {p}
        /\ log' = Append(log, Completed(p[1], p[2]))
        /\ UNCHANGED <<builder, arrays, heap, calls, pc, configuration, retry,
                       request, nextId, response, passed, strategy, result,
                       warnings, sends, atSend>>

\* A call of one of the builder's setters.
BuilderCall ==
    \/ asGet \/ asPost \/ asPut \/ asDelete
    \/ withUrl \/ withAuthorization \/ withHeaders \/ withParams
    \/ withResponseType \/ withBody \/ withMaxRetries
    \/ withRetryFallbackStrategy \/ withUnauthorizedStrategy
    \/ withFailedStrategy \/ withNoContentStrategy \/ withSuccessStrategy
    \/ withRetryFallbackSideEffects \/ withUnauthorizedSideEffects
    \/ withFailedSideEffect \/ withSuccessSideEffect
    \/ withRefreshTokenStrategy

Next ==
    \/ BuilderCall
    \/ send
    \/ TransportResponds
    \/ TransportThrows
    \/ RefreshReturns
    \/ StrategyReturns
    \/ SideEffectCompletes

Spec == Init /\ [][Next]_vars

\* The executions in which every call the engine awaits returns: the
\* transport answers every dispatch, refreshTokenStrategy and the terminal
\* strategy answer every call.
NextReturning ==
    \/ BuilderCall
    \/ send
    \/ TransportResponds
    \/ RefreshReturns
    \/ StrategyReturns
    \/ SideEffectCompletes

SpecReturning ==
    /\ Init
    /\ [][NextReturning]_vars
    /\ WF_vars(TransportResponds)
    /\ WF_vars(RefreshReturns)
    /\ WF_vars(StrategyReturns)

\* ----------------------------------------------------------------- claims

\* send() passed validation and entered call().
Started == pc # "idle" /\ warnings = <<>>

\* The calls the engine made, without the completions.
Calls(lg) == SelectSeq(lg, LAMBDA e : e.ev = "invoke")

TerminalInvocations(lg) ==
    Cardinality({i \in 1..Len(lg) :
                    lg[i].ev = "invoke" /\ lg[i].name \in TerminalStrategies})

\* Every strategy slot and every member of every side-effect array of the
\* configuration is a function.
AllCallable(c) ==
    /\ \A slot \in TerminalStrategies \cup {"refreshTokenStrategy"} : _isFunction(c[slot])
    /\ \A l \in SideEffectLists :
            \A i \in 1..Len(arrays[c[l]]) : _isFunction(arrays[c[l]][i])

\* C1: in an execution in which nothing throws, at most one terminal strategy
\* has been invoked at any moment, and when send() has resolved after a
\* valid configuration exactly one has been invoked, exactly once.
C1_ExactlyOneTerminalStrategy ==
    /\ TerminalInvocations(log) <= 1
    /\ (Started /\ pc \in {"awaitStrategy", "done"}) =>
            /\ TerminalInvocations(log) = 1
            /\ Count(log, "invoke", strategy) = 1
    /\ (Started /\ pc \in {"awaitTransport", "awaitRefresh"}) =>
            TerminalInvocations(log) = 0

\* send() resolved through the fallback after two dispatches and two refreshes.
C1_Witness ==
    /\ pc = "done"
    /\ Started
    /\ Dispatches(log) = 2
    /\ strategy = "retryFallbackStrategy"
    /\ TerminalInvocations(log) = 1

\* The least non-negative integer that is not below a number.
CeilNonNegative(m) == IF m.half <= 0 THEN 0 ELSE (m.half + 1) \div 2

\* C2 as stated, for the budgets that are not negative: the number of
\* dispatches of an execution never exceeds maxRetry.
C2_DispatchesNeverExceedMaxRetry ==
    (Started /\ ~configuration.maxRetry.nan /\ configuration.maxRetry.half >= 0) =>
        2 * Dispatches(log) <= configuration.maxRetry.half

\* C2 amended: for every budget that is a number other than NaN, the number
\* of dispatches never exceeds maxRetry rounded up to a non-negative integer
\* (maxRetry itself when it is a non-negative integer), and once the attempt
\* counter has reached maxRetry the execution is in the retry-fallback branch:
\* the descriptor of that attempt is never dispatched.
C2_DispatchesBoundedByBudget ==
    (Started /\ ~configuration.maxRetry.nan) =>
        /\ Dispatches(log) <= CeilNonNegative(configuration.maxRetry)
        /\ 2 * retry >= configuration.maxRetry.half =>
                /\ pc \in {"awaitStrategy", "done", "threw"}
                /\ passed = "request"
                /\ Count(log, "refreshed", "refreshTokenStrategy") = Dispatches(log)
                /\ \A i \in 1..Len(log) : log[i] # Dispatched(request.id)
                /\ pc # "threw" => strategy = "retryFallbackStrategy"

\* A budget of 1.5 is used up: two dispatches, then the fallback.
C2_Witness ==
    /\ Started
    /\ configuration.maxRetry = Num(3)
    /\ Dispatches(log) = 2
    /\ pc = "done"
    /\ strategy = "retryFallbackStrategy"

\* The status the classification policy speaks of: the direct status, the
\* nested one when there is no direct one, -1 when none can be read.
ReadableStatus(res) ==
    IF res.absent THEN -1
    ELSE IF res.status.def THEN res.status.n
    ELSE IF res.hasResponse /\ res.nested.def THEN res.nested.n
    ELSE -1

\* The classification policy, in its order.
Classification(res) ==
    IF ReadableStatus(res) = 401 THEN "Unauthorized"
    ELSE IF res.absent \/ ReadableStatus(res) < 200 \/ ReadableStatus(res) > 299 THEN "Failed"
    ELSE IF res.status.def /\ res.status.n = 204 THEN "NoContent"
    ELSE "Success"

\* The branch call() is in after a response.
BranchTaken ==
    IF pc = "awaitRefresh" THEN "Unauthorized"
    ELSE IF pc = "awaitStrategy" /\ strategy = "failedStrategy" THEN "Failed"
    ELSE IF pc = "awaitStrategy" /\ strategy = "noContentStrategy" THEN "NoContent"
    ELSE IF pc = "awaitStrategy" /\ strategy = "successStrategy" THEN "Success"
    ELSE "none"

\* C3: the branch taken for a dispatched response is the class the policy
\* gives it, and an absent or status-less response is Failed.
C3_BranchFollowsClassification ==
    [][(pc = "awaitTransport" /\ pc' \in {"awaitRefresh", "awaitStrategy"}) =>
            /\ BranchTaken' = Classification(response')
            /\ (response'.absent \/ ReadableStatus(response') = -1) =>
                    BranchTaken' = "Failed"]_vars

\* A response with no direct status and a nested 401 went to the refresh.
C3_Witness ==
    /\ pc = "awaitRefresh"
    /\ response = Res(Undef, TRUE, Int3(401))

\* C4 as stated: every accepted refresh is followed by a dispatch.
C4_AcceptedRefreshDispatchesAgain ==
    \A i \in 1..Len(log) :
        log[i] = Refreshed(TRUE) => (i < Len(log) /\ log[i + 1].ev = "dispatch")

\* C4 amended: when the response is Unauthorized and refreshTokenStrategy
\* returns true, call() is entered again with the attempt counter incremented
\* by exactly 1 and a newly built descriptor; that descriptor is dispatched
\* if the incremented counter is still below maxRetry, and otherwise the
\* retry-fallback branch runs and nothing more is dispatched.
C4_AcceptedRefreshReentersCall ==
    [][(pc = "awaitRefresh" /\ Len(log') > Len(log)
            /\ log'[Len(log) + 1] = Refreshed(TRUE)) =>
        /\ retry' = retry + 1
        /\ request'.id = nextId /\ request'.id > request.id
        /\ request'.Url = configuration.url
        /\ request'.Data = configuration.body
        /\ request'.Params = configuration.queryParams
        /\ request'.ResponseType = configuration.responseType
        /\ IF ~configuration.maxRetry.nan /\ 2 * retry' >= configuration.maxRetry.half
           THEN /\ Dispatches(log') = Dispatches(log)
                /\ passed' = "request"
                /\ pc' \in {"awaitStrategy", "threw"}
           ELSE /\ log' = log \o <<Refreshed(TRUE), Dispatched(request'.id)>>
                /\ pc' = "awaitTransport"]_vars

\* The second dispatch after an accepted refresh.
C4_Witness ==
    /\ pc = "awaitTransport"
    /\ retry = 1
    /\ Dispatches(log) = 2
    /\ Count(log, "refreshed", "refreshTokenStrategy") = 1

\* The calls of side effects and terminal strategies, in order.
TerminalCalls(lg) ==
    SelectSeq(lg, LAMBDA e : e.ev = "invoke" /\ e.name # "refreshTokenStrategy")

\* Every member of a side-effect array in registration order, then the strategy.
ExpectedCalls(c, list, slot) ==
    [i \in 1..(Len(arrays[c[list]]) + 1) |->
        IF i <= Len(arrays[c[list]]) THEN Invoked(list, i) ELSE Invoked(slot, 0)]

Refused == \E i \in 1..Len(log) : log[i] = Refreshed(FALSE)

\* C5: after an Unauthorized response and a refused refresh, every
\* unauthorized side effect and then unauthorizedStrategy is called, exactly
\* once, and nothing is dispatched after the refusal (one dispatch in all when
\* the first refresh is refused).
C5_RefusedRefreshEndsInUnauthorizedStrategy ==
    Refused =>
        /\ TerminalCalls(log) =
                ExpectedCalls(configuration, "unauthorizedSideEffects", "unauthorizedStrategy")
        /\ Dispatches(log) = Count(log, "refreshed", "refreshTokenStrategy")
        /\ \A i, j \in 1..Len(log) : log[i] = Refreshed(FALSE) /\ i < j => log[j].ev # "dispatch"

\* The same, for the configurations whose members are all functions.
C5_WhenAllCallable ==
    AllCallable(configuration) => C5_RefusedRefreshEndsInUnauthorizedStrategy

\* C6: with maxRetry = 0 and every strategy and side effect callable, send()
\* dispatches nothing and never calls refreshTokenStrategy: it calls every
\* retryFallbackSideEffect in order and then retryFallbackStrategy, with a
\* descriptor that carries the configuration's url, body, query parameters,
\* response type and headers (no Authorization header is added).
C6_ZeroBudgetFallsBackAtOnce ==
    (Started /\ configuration.maxRetry = Num(0) /\ AllCallable(configuration)) =>
        /\ Dispatches(log) = 0
        /\ Count(log, "invoke", "refreshTokenStrategy") = 0
        /\ pc \in {"awaitStrategy", "done"}
        /\ strategy = "retryFallbackStrategy"
        /\ Calls(log) =
                ExpectedCalls(configuration, "retryFallbackSideEffects", "retryFallbackStrategy")
        /\ passed = "request"
        /\ request.Url = configuration.url
        /\ request.Data = configuration.body
        /\ request.Params = configuration.queryParams
        /\ request.ResponseType = configuration.responseType
        /\ request.Headers =
                (IF configuration.headers = Null THEN FreshHeaders ELSE configuration.headers)
        /\ heap[request.Headers] =
                (IF configuration.headers = Null THEN EmptyHeaders
                 ELSE HeadersAtConstruction[configuration.headers])

\* A zero budget with a fallback side effect registered, resolved.
C6_Witness ==
    /\ Started
    /\ configuration.maxRetry = Num(0)
    /\ AllCallable(configuration)
    /\ Len(arrays["retryFallbackSideEffects"]) = 1
    /\ pc = "done"
    /\ strategy = "retryFallbackStrategy"

\* The side-effect array and the strategy of the terminal branch call() took.
BranchList ==
    IF passed = "request" THEN "retryFallbackSideEffects"
    ELSE IF unauthorized(response) THEN "unauthorizedSideEffects"
    ELSE IF isAFailedHttpResponse(response) THEN "failedSideEffects"
    ELSE "successSideEffects"

BranchSlot ==
    IF passed = "request" THEN "retryFallbackStrategy"
    ELSE IF unauthorized(response) THEN "unauthorizedStrategy"
    ELSE IF isAFailedHttpResponse(response) THEN "failedStrategy"
    ELSE IF noContent(response) THEN "noContentStrategy"
    ELSE "successStrategy"

\* C7: in every terminal branch every member of the branch's side-effect
\* array is called, in registration order, each exactly once, and all of them
\* before the terminal strategy.
C7_BranchRunsAllSideEffectsThenStrategy ==
    (Started /\ passed # "nothing") =>
        TerminalCalls(log) = ExpectedCalls(configuration, BranchList, BranchSlot)

\* The same, for the configurations whose members are all functions.
C7_WhenAllCallable ==
    AllCallable(configuration) => C7_BranchRunsAllSideEffectsThenStrategy

IsSideEffectCall(e) == e.ev = "invoke" /\ e.name \in SideEffectLists

\* C8 as stated: a side effect has completed before the next call the engine
\* makes, and the terminal strategy has completed when send() has resolved.
C8_EveryHandlerAwaited ==
    /\ \A j, k \in 1..Len(log) :
            (j < k /\ IsSideEffectCall(log[j]) /\ log[k].ev = "invoke") =>
                \E m \in (j + 1)..(k - 1) : log[m] = Completed(log[j].name, log[j].idx)
    /\ (Started /\ pc = "done") =>
            \E m \in 1..Len(log) : log[m] = Completed(strategy, 0)

\* C8 amended: the engine awaits the strategies and not the side effects.
\* refreshTokenStrategy has answered before the engine does anything else, and
\* the terminal strategy has completed when send() has resolved; the side
\* effects are called one after the other in registration order, all before
\* the terminal strategy is called, but one that suspends is not waited for
\* (it may complete after the next call, or after send() has resolved).
C8_StrategiesAwaitedSideEffectsStartedInOrder ==
    /\ (Started /\ pc = "done") =>
            \E m \in 1..Len(log) : log[m] = Completed(strategy, 0)
    /\ \A i \in 1..Len(log) :
            (log[i] = Invoked("refreshTokenStrategy", 0) /\ i < Len(log)) =>
                log[i + 1].ev = "refreshed"
    /\ (pc = "awaitRefresh") => log[Len(log)] = Invoked("refreshTokenStrategy", 0)
    /\ \A j, k \in 1..Len(log) :
            (IsSideEffectCall(log[j]) /\ log[k].ev = "invoke") =>
                /\ log[k].name \in TerminalStrategies => j < k
                /\ (log[k].name = log[j].name /\ log[j].idx < log[k].idx) => j < k

\* send() has resolved while a side effect it started is still running.
C8_Witness ==
    /\ Started
    /\ pc = "done"
    /\ pending # {}
    /\ \E m \in 1..Len(log) : log[m] = Completed(strategy, 0)

\* C9: a configuration with a strategy or a side-effect member that is not
\* callable is rejected by validation and nothing is dispatched.
C9_NonCallableIsRejected ==
    (pc # "idle" /\ ~AllCallable(configuration)) =>
        (warnings # <<>> /\ Dispatches(log) = 0)

\* The configurations the first five checks of validation turn down.
Malformed(c) ==
    \/ c.method \notin HttpMethods
    \/ c.url \in {Null, ""}
    \/ c.headers = AString
    \/ c.queryParams = AString
    \/ c.maxRetry.type # "number"

\* C10: when the method, the url, the headers, the query parameters or
\* maxRetry fail validation, send() resolves with an absent result without
\* throwing, having dispatched nothing and called no strategy, no side effect
\* and no refreshTokenStrategy.
C10_MalformedConfigurationNeverRuns ==
    (pc # "idle" /\ Malformed(configuration)) =>
        /\ pc = "done"
        /\ result = Undefined
        /\ log = <<>>
        /\ pending = {}
        /\ Len(warnings) = 1

\* send() turned down a configuration whose maxRetry is no number.
C10_Witness ==
    /\ pc = "done"
    /\ configuration.maxRetry = NotANumber
    /\ warnings = <<"Max retries must be a number">>
    /\ result = Undefined

\* ------------------------------------------------- aliasing of the headers

\* The header object the running send() was configured with, if it has one.
ConfiguredHeaders == configuration.headers

\* C11: the configuration of a running send() is never changed by the engine:
\* its headers object holds what it held when send() assembled it.
C11_ConfigurationHeadersUnchanged ==
    (Started /\ ConfiguredHeaders # Null) =>
        heap[ConfiguredHeaders] = atSend.heap[ConfiguredHeaders]

\* --------------------------------------- builder calls while send() runs

\* send() is suspended at an await: the caller holds the builder and may call
\* its setters before the promise settles.
InFlight == pc \in {"awaitTransport", "awaitRefresh", "awaitStrategy"}

SetInFlight(field, value) ==
    /\ InFlight
    /\ calls < MaxBuilderCalls
    /\ builder' = [builder EXCEPT ![field] = value]
    /\ calls' = calls + 1
    /\ UNCHANGED <<arrays, heap, engine>>

PushInFlight(field, value) ==
    /\ InFlight
    /\ calls < MaxBuilderCalls
    /\ arrays' = [arrays EXCEPT ![builder[field]] = Append(@, value)]
    /\ calls' = calls + 1
    /\ UNCHANGED <<builder, heap, engine>>

withAuthorizationInFlight == \E bearer \in BearerArgs : SetInFlight("bearer", bearer)
withMaxRetriesInFlight == \E retries \in MaxRetryArgs : SetInFlight("maxRetry", retries)
withSuccessStrategyInFlight == \E f \in FunctionArgs : SetInFlight("successStrategy", f)
withSideEffectInFlight ==
    \E field \in SideEffectLists, f \in FunctionArgs : PushInFlight(field, f)

NextInFlight ==
    \/ Next
    \/ withAuthorizationInFlight
    \/ withMaxRetriesInFlight
    \/ withSuccessStrategyInFlight
    \/ withSideEffectInFlight

SpecInFlight == Init /\ [][NextInFlight]_vars

\* C12: an execution owns what it was configured with: the side effects it
\* runs are members its side-effect sequences had when send() was called,
\* whatever the builder is told afterwards.
C12_ExecutionOwnsItsSideEffects ==
    Started =>
        \A k \in 1..Len(log) :
            IsSideEffectCall(log[k]) => log[k].idx <= Len(atSend.arrays[log[k].name])

\* The scalar fields of the configuration are copied by send(): a setter
\* called while send() runs changes the builder and not the configuration.
C12_ScalarFieldsAreSnapshots ==
    [][(InFlight /\ builder' # builder) => configuration' = configuration]_vars

\* ------------------------------------------------------- what send() returns

\* C13: when send() has resolved after a valid configuration, its value is
\* the value the invoked terminal strategy returned; with the constructor's
\* successStrategy (res => res.data) and a first response of status 200 with
\* data D, that value is D and there was exactly one dispatch.
C13_SendResolvesWithStrategyValue ==
    (Started /\ pc = "done") =>
        /\ TerminalInvocations(log) = 1
        /\ \E k \in 1..Len(log) : log[k] = Invoked(strategy, 0)
        /\ result = StrategyValue(configuration, strategy, response)
        /\ (/\ retry = 0
            /\ response.status = Int3(200)
            /\ configuration.successStrategy = DefaultFn) =>
                /\ strategy = "successStrategy"
                /\ result = "D"
                /\ Dispatches(log) = 1

\* send() resolved with the data of a 200 response, after a success side
\* effect ran whose return value went nowhere.
C13_Witness ==
    /\ Started
    /\ pc = "done"
    /\ response.status = Int3(200)
    /\ configuration.successStrategy = DefaultFn
    /\ Len(arrays[configuration.successSideEffects]) > 0
    /\ result = "D"
    /\ Dispatches(log) = 1

\* ------------------------------------------------------ a throwing transport

\* C14: when the transport has thrown, the exception has left send(): that
\* is the last thing that happened, send() has not resolved with a value, and
\* no terminal strategy and no side effect was invoked, for that attempt or
\* any other.
C14_TransportExceptionPropagates ==
    \A k \in 1..Len(log) :
        log[k].ev = "throw" =>
            /\ k = Len(log)
            /\ pc = "threw"
            /\ result = Unresolved
            /\ pending = {}
            /\ \A j \in 1..Len(log) :
                    log[j].ev = "invoke" => log[j].name = "refreshTokenStrategy"

\* The transport threw on a re-dispatch, with a failed side effect registered.
C14_Witness ==
    /\ pc = "threw"
    /\ Dispatches(log) = 2
    /\ log[Len(log)] = Thrown(request.id)
    /\ Len(arrays[configuration.failedSideEffects]) > 0
    /\ AllCallable(configuration)

\* ---------------------------------------------------------------- termination

\* maxRetry is 0, 1, 2, ...
NonNegativeInteger(m) ==
    m.type = "number" /\ ~m.nan /\ m.half >= 0 /\ m.half % 2 = 0

\* C15: when every awaited call returns, an execution of a configuration
\* whose callables are all functions and whose maxRetry is a non-negative
\* integer ends with send() resolved, whatever the responses and however
\* often refreshTokenStrategy returns true.
C15_ExecutionTerminates ==
    (Started /\ AllCallable(configuration) /\ NonNegativeInteger(configuration.maxRetry))
        ~> (pc = "done")

\* An execution that got 401 for every dispatch and a granted refresh every
\* time, and ended in the retry fallback.
C15_Witness ==
    /\ Started
    /\ AllCallable(configuration)
    /\ configuration.maxRetry = Num(4)
    /\ pc = "done"
    /\ Dispatches(log) = 2
    /\ Count(log, "refreshed", "refreshTokenStrategy") = 2
    /\ strategy = "retryFallbackStrategy"

\* ------------------------------------------------------ the bearer token

\* What the configured headers held under key when send() was called.
ConfiguredHeader(key) ==
    IF ConfiguredHeaders = Null THEN Absent ELSE atSend.heap[ConfiguredHeaders][key]

\* C16: with a bearer token in the configuration, the descriptor of every
\* dispatch, the first and each one after a refresh, carries Authorization
\* 'Bearer <token>' next to the headers that were configured.
C16_BearerOnEveryDispatch ==
    (pc = "awaitTransport" /\ configuration.bearer # Null) =>
        /\ heap[request.Headers].Authorization = "Bearer " \o configuration.bearer
        /\ heap[request.Headers].Accept = ConfiguredHeader("Accept")

\* The dispatch after a granted refresh, of an execution with a token.
C16_Witness ==
    /\ pc = "awaitTransport"
    /\ Dispatches(log) = 2
    /\ Count(log, "refreshed", "refreshTokenStrategy") = 1
    /\ configuration.bearer = "t1"
    /\ heap[request.Headers].Authorization = "Bearer t1"

\* ------------------------------------------------- refresh and the budget

RefreshCalls(lg) == Count(lg, "invoke", "refreshTokenStrategy")

\* The last dispatch has been answered by the transport.
Answered ==
    /\ Dispatches(log) > 0
    /\ pc # "awaitTransport"
    /\ log[Len(log)].ev # "throw"

\* C17 as stated, for the budgets that are not negative: refreshTokenStrategy
\* is invoked at most maxRetry times in one send().
C17_RefreshAtMostMaxRetryTimes ==
    (Started /\ ~configuration.maxRetry.nan /\ configuration.maxRetry.half >= 0) =>
        2 * RefreshCalls(log) <= configuration.maxRetry.half

\* C17 amended: refreshTokenStrategy is invoked once for each dispatch that
\* was answered Unauthorized, right after it, and every dispatch but the
\* first follows a granted refresh; for a budget other than NaN that is at
\* most maxRetry rounded up to a non-negative integer invocations.  When a
\* granted refresh brings the attempt counter to maxRetry, the execution is
\* in the retry-fallback branch: nothing more is dispatched, and
\* unauthorizedStrategy is never invoked.
C17_RefreshSharesRetryBudget ==
    (Started /\ ~configuration.maxRetry.nan) =>
        /\ RefreshCalls(log) <= CeilNonNegative(configuration.maxRetry)
        /\ RefreshCalls(log) =
                IF Answered /\ unauthorized(response)
                THEN Dispatches(log) ELSE Dispatches(log) - (IF Dispatches(log) > 0 THEN 1 ELSE 0)
        /\ \A k \in 1..Len(log) :
                /\ log[k] = Invoked("refreshTokenStrategy", 0) =>
                        k > 1 /\ log[k - 1].ev = "dispatch"
                /\ (log[k].ev = "dispatch" /\ k > 1) =>
                        /\ k > 3
                        /\ log[k - 1] = Refreshed(TRUE)
                        /\ log[k - 2] = Invoked("refreshTokenStrategy", 0)
                        /\ log[k - 3].ev = "dispatch"
        /\ (retry > 0 /\ 2 * retry >= configuration.maxRetry.half) =>
                /\ pc \in {"awaitStrategy", "done", "threw"}
                /\ passed = "request"
                /\ unauthorized(response)
                /\ Dispatches(log) = retry
                /\ RefreshCalls(log) = retry
                /\ \A k \in 1..Len(log) :
                        /\ log[k].ev = "refreshed" => log[k] = Refreshed(TRUE)
                        /\ log[k] # Invoked("unauthorizedStrategy", 0)
                        /\ IsSideEffectCall(log[k]) => log[k].name = "retryFallbackSideEffects"
                /\ pc # "threw" => strategy = "retryFallbackStrategy"

\* A budget of one: the one dispatch was answered 401, the refresh was
\* granted, and send() resolved through retryFallbackStrategy.
C17_Witness ==
    /\ Started
    /\ configuration.maxRetry = Num(2)
    /\ pc = "done"
    /\ unauthorized(response)
    /\ Dispatches(log) = 1
    /\ log[3] = Refreshed(TRUE)
    /\ strategy = "retryFallbackStrategy"

\* ------------------------------------------- which side effects may run

\* The side-effect sequence that goes with a terminal branch: the retry
\* fallback, or the class of the last response.
PairedList ==
    IF passed = "request" THEN "retryFallbackSideEffects"
    ELSE IF Classification(response) = "Unauthorized" THEN "unauthorizedSideEffects"
    ELSE IF Classification(response) = "Failed" THEN "failedSideEffects"
    ELSE "successSideEffects"

\* C18: the only side effects an execution invokes are members of the
\* sequence paired with the terminal branch it took (successSideEffects for
\* Success and for NoContent); none is invoked before the terminal branch,
\* that is on an attempt that is followed by a refresh or a re-dispatch.
C18_OnlyPairedSideEffectsRun ==
    Started =>
        \A k \in 1..Len(log) :
            IsSideEffectCall(log[k]) =>
                /\ passed # "nothing"
                /\ log[k].name = PairedList
                /\ strategy \in {"successStrategy", "noContentStrategy"} =>
                        log[k].name = "successSideEffects"
                /\ \A j \in (k + 1)..Len(log) :
                        log[j].ev \notin {"dispatch", "refreshed"}
                            /\ log[j] # Invoked("refreshTokenStrategy", 0)

\* A 204 answer: the success side effect ran before noContentStrategy, the
\* failed side effect that was registered did not.
C18_Witness ==
    /\ Started
    /\ pc = "done"
    /\ strategy = "noContentStrategy"
    /\ Len(arrays[configuration.failedSideEffects]) > 0
    /\ log[2] = Invoked("successSideEffects", 1)
    /\ Count(log, "invoke", "failedSideEffects") = 0

\* ------------------------------------------------- the order of validation

\* The checks in the order method, url, headers, queryParams, maxRetry,
\* callables: the diagnostic of the first one a configuration violates, Valid
\* when it violates none.  The callables are every strategy and every member
\* of every side-effect sequence.
EarliestDiagnostic(c) ==
    IF c.method \notin HttpMethods THEN "Http method not defined or is invalid"
    ELSE IF c.url \in {Null, ""} THEN "No url configured"
    ELSE IF c.headers = AString THEN "Headers must be an object"
    ELSE IF c.queryParams = AString THEN "Parameters must be an object"
    ELSE IF c.maxRetry.type # "number" THEN "Max retries must be a number"
    ELSE IF ~AllCallable(c) THEN "Strategies must be functions"
    ELSE Valid

Indicator(b) == IF b THEN 1 ELSE 0

RECURSIVE NonCallables(_)
NonCallables(members) ==
    IF members = <<>> THEN 0
    ELSE Indicator(~_isFunction(Head(members))) + NonCallables(Tail(members))

\* How many violations a configuration has.
Violations(c) ==
    Indicator(c.method \notin HttpMethods) + Indicator(c.url \in {Null, ""})
        + Indicator(c.headers = AString) + Indicator(c.queryParams = AString)
        + Indicator(c.maxRetry.type # "number")
        + NonCallables(<<c.retryFallbackStrategy, c.unauthorizedStrategy,
                         c.failedStrategy, c.noContentStrategy, c.successStrategy,
                         c.refreshTokenStrategy>>)
        + NonCallables(arrays[c.retryFallbackSideEffects])
        + NonCallables(arrays[c.unauthorizedSideEffects])
        + NonCallables(arrays[c.failedSideEffects])
        + NonCallables(arrays[c.successSideEffects])

\* send() warned once, with message d, and resolved with nothing.
TurnedDownWith(d) ==
    /\ pc = "done"
    /\ warnings = <<d>>
    /\ result = Undefined
    /\ log = <<>>

\* C19: for a configuration with several violations, validation emits exactly
\* one diagnostic, that of the earliest violated check in the order method,
\* url, headers, queryParams, maxRetry, callables, and send() returns without
\* an error.
C19_OneDiagnosticOfEarliestViolation ==
    (pc # "idle" /\ Violations(configuration) >= 2) =>
        TurnedDownWith(EarliestDiagnostic(configuration))

\* The members validation looks at: all but those of unauthorizedSideEffects
\* and retryFallbackSideEffects.
CheckedCallable(c) ==
    /\ \A slot \in TerminalStrategies \cup {"refreshTokenStrategy"} : _isFunction(c[slot])
    /\ \A l \in {"failedSideEffects", "successSideEffects"} :
            \A i \in 1..Len(arrays[c[l]]) : _isFunction(arrays[c[l]][i])

\* The order and the single diagnostic hold whenever a violation is one that
\* validation looks for.
C19_WhenAViolationIsChecked ==
    (pc # "idle" /\ (Malformed(configuration) \/ ~CheckedCallable(configuration))) =>
        TurnedDownWith(EarliestDiagnostic(configuration))

\* ------------------------------------------------ one builder, several sends

\* The promise send() returned has settled and the side effects it started
\* have completed: the caller goes on with the same builder.  What was
\* observed of the finished send() is put aside.
CallerResumes ==
    /\ pc \in {"done", "threw"}
    /\ pending = {}
    /\ sends < MaxSends
    /\ pc' = "idle"
    /\ retry' = 0
    /\ request' = NoRequest
    /\ response' = AbsentResponse
    /\ log' = <<>>
    /\ passed' = "nothing"
    /\ strategy' = "none"
    /\ result' = Unresolved
    /\ warnings' = <<>>
    /\ UNCHANGED <<builder, arrays, heap, calls, configuration, nextId, pending,
                   sends, atSend>>

NextReuse == Next \/ CallerResumes

SpecReuse == Init /\ [][NextReuse]_vars

\* What the headers the builder was given held when they were given.
HeadersConfigured ==
    IF ConfiguredHeaders = Null THEN EmptyHeaders
    ELSE HeadersAtConstruction[ConfiguredHeaders]

\* C20: a send() whose configuration has no bearer token dispatches with the
\* headers that were configured through the builder, without an
\* Authorization header, whatever was sent from the builder before.
C20_NoAuthorizationWithoutBearer ==
    (pc = "awaitTransport" /\ configuration.bearer = Null) =>
        /\ heap[request.Headers].Authorization = Absent
        /\ heap[request.Headers] = HeadersConfigured

\* The first send() of a builder does dispatch without Authorization when it
\* has no token.
C20_HoldsForTheFirstSend ==
    sends = 1 => C20_NoAuthorizationWithoutBearer

====
